---- MODULE Spec2Model ----
(***************************************************************************)
(* A model of morphological_tagging/data/corpus.py: the DocumentCorpus     *)
(* that parses CoNLL-U files into Documents, builds the token, character   *)
(* and morphological-tag vocabularies, tensorizes every Document, ranks    *)
(* lemma scripts and aligns sub-word tokens with corpus tokens.            *)
(*                                                                         *)
(* A Python str is a sequence of one-character strings, None is the empty  *)
(* tuple and a present optional value x is <<x>>.  A dict is a sequence of *)
(* [k, v] records in insertion order.  A tensor is a sequence (a matrix a  *)
(* sequence of rows).                                                      *)
(***************************************************************************)
EXTENDS Integers, Sequences, FiniteSets, TLC

VARIABLES
    docs,             \* DocumentCorpus.docs
    token_vocab,      \* DocumentCorpus.token_vocab
    char_vocab,       \* DocumentCorpus.char_vocab
    morph_tag_vocab,  \* DocumentCorpus.morph_tag_vocab
    script_counter,   \* DocumentCorpus.script_counter
    script_examples,  \* DocumentCorpus.script_examples
    script_to_id,     \* DocumentCorpus.script_to_id
    id_to_script,     \* DocumentCorpus.id_to_script
    pc,               \* add_context_embs: the Document its loop is at, 0 outside a call
    last,             \* the last call or step: its input, docs before it, how it ended
    consumed          \* rows read and calls made so far

vars == <<docs, token_vocab, char_vocab, morph_tag_vocab,
          script_counter, script_examples, script_to_id, id_to_script,
          pc, last, consumed>>

----------------------------------------------------------------------------
(* Bounds of the model. *)

\* Rows read plus calls made, over one behaviour of Spec.
MaxInput == 5

\* Size of a corpus where set_lemma_tags runs: its Documents plus its tokens.
MaxLemmaSize == 6

\* Size of a corpus where add_context_embs runs: one for every Document, plus
\* the characters of its text and of its tokens.
MaxContextSize == 5

----------------------------------------------------------------------------
(* Python values. *)

None == << >>
Some(x) == <<x>>

TAB == "\t"

\* ord(c) for the characters that are ever compared.
CodePoint(c) ==
    CASE c = "\t" -> 9   [] c = " " -> 32  [] c = "#" -> 35  [] c = "." -> 46
      [] c = "1" -> 49   [] c = "2" -> 50  [] c = "3" -> 51  [] c = ";" -> 59
      [] c = "<" -> 60   [] c = "=" -> 61  [] c = ">" -> 62  [] c = "A" -> 65
      [] c = "B" -> 66   [] c = "D" -> 68  [] c = "K" -> 75  [] c = "N" -> 78
      [] c = "P" -> 80   [] c = "U" -> 85  [] c = "_" -> 95  [] c = "a" -> 97
      [] c = "b" -> 98   [] c = "d" -> 100 [] c = "e" -> 101 [] c = "i" -> 105
      [] c = "n" -> 110  [] c = "s" -> 115 [] c = "t" -> 116 [] c = "x" -> 120
      [] c = "z" -> 122

Min(a, b) == IF a <= b THEN a ELSE b

\* s < t for two str, as Python compares them: by code point, a proper
\* prefix first.
StrLess(s, t) ==
    \E i \in 1..(Min(Len(s), Len(t)) + 1) :
        /\ \A j \in 1..(i - 1) : s[j] = t[j]
        /\ \/ i > Len(s) /\ i <= Len(t)
           \/ i <= Len(s) /\ i <= Len(t) /\ CodePoint(s[i]) < CodePoint(t[i])

\* sub in s
Contains(sub, s) ==
    \E i \in 0..(Len(s) - Len(sub)) : SubSeq(s, i + 1, i + Len(sub)) = sub

\* s[n:]
From(s, n) == SubSeq(s, n + 1, Len(s))

\* s.split(sep) for a one-character sep (rsplit without maxsplit is the same):
\* the pieces of s between the occurrences of sep, here those of s[i:].
RECURSIVE SplitFrom(_, _, _)
SplitFrom(s, sep, i) ==
    LET at == {k \in i..Len(s) : s[k] = sep}
    IN  IF at = {}
        THEN <<SubSeq(s, i, Len(s))>>
        ELSE LET k == CHOOSE x \in at : \A y \in at : x <= y
             IN  <<SubSeq(s, i, k - 1)>> \o SplitFrom(s, sep, k + 1)

Split(s, sep) == SplitFrom(s, sep, 1)

\* The elements of a sequence, and a list flattened.
Range(q) == {q[i] : i \in 1..Len(q)}

RECURSIVE Flatten(_)
Flatten(qq) == IF qq = << >> THEN << >> ELSE Head(qq) \o Flatten(Tail(qq))

\* How often x occurs in the list q.
Count(x, q) == Cardinality({i \in 1..Len(q) : q[i] = x})

\* corpus.py: unk_token, pad_token.
unk_token == <<"<", "U", "N", "K", ">">>
pad_token == <<"<", "P", "A", "D", ">">>

----------------------------------------------------------------------------
(* Tree and Document. *)

Tree == [raw |-> << >>, tokens |-> << >>, lemmas |-> << >>, morph_tags |-> << >>]

Document == [sent_id |-> None, text |-> None, tree |-> Tree,
             chars_tensor |-> None, tokens_tensor |-> None,
             morph_tags_tensor |-> None, lemma_tags_tensor |-> None,
             context_emb |-> None, model_name |-> None]

\* Tree.add unpacks the row into exactly ten names: any other length raises.
TreeAddRaises(branch) == Len(branch) # 10

TreeAdd(tree, branch) ==
    LET word_form  == branch[2]
        lemma      == branch[3]
        morph_tags == branch[6]
    IN  [raw        |-> Append(tree.raw, <<word_form, lemma, morph_tags>>),
         tokens     |-> Append(tree.tokens, word_form),
         lemmas     |-> Append(tree.lemmas, lemma),
         morph_tags |-> Append(tree.morph_tags, Split(morph_tags, ";"))]

\* len(doc)
DocLen(d) == Len(d.tree.tokens)

----------------------------------------------------------------------------
(* The files that are parsed. *)

\* csv.reader(delimiter="\t"): an empty line is the row [], any other line
\* its tab-separated fields.
CsvRow(line) == IF Len(line) = 0 THEN << >> ELSE Split(line, TAB)

SentIdMarker == <<"#", " ", "s", "e", "n", "t", "_", "i", "d", " ", "=", " ">>
TextMarker == <<"#", " ", "t", "e", "x", "t", " ", "=", " ">>

\* '\t'.join(fields)
RECURSIVE JoinTab(_)
JoinTab(fields) ==
    IF Len(fields) = 1 THEN Head(fields)
    ELSE Head(fields) \o <<TAB>> \o JoinTab(Tail(fields))

U == <<"_">>

Lines ==
    { << >>,
      SentIdMarker \o <<"s">>,
      TextMarker \o <<"a", "b">>,
      <<"x">>,
      JoinTab(<< <<"1">>, <<"a">>, <<"a">>, U, U, <<"A", ";", "B">>, U, U, U, U >>),
      JoinTab(<< <<"2">>, <<"a", "b">>, <<"a">>, U, U, U, U, U, U, U >>),
      JoinTab(<< <<"1", ".", "1">>, <<"b">>, <<"b">>, U, U, <<"B">>, U, U, U, U >>),
      JoinTab(<< <<"3">>, <<"b">>, <<"b">> >>) }

\* conllu_data: what csv.reader yields for a file is a sequence of these rows.
Rows == {CsvRow(l) : l \in Lines}

----------------------------------------------------------------------------
(* parse_tree_file: the scan. *)

\* The scan's state when the file is opened: the corpus's list and a fresh
\* current Document.
ScanStartOverwrite(ds) == [docs |-> << >>, cur_doc |-> Document, raised |-> FALSE]

ScanStart(ds) == [docs |-> ds, cur_doc |-> Document, raised |-> FALSE]

\* A variant that swallows the unpacking error and goes on with the next row.
ParseRowSkipBad(st, row) ==
    IF Len(row) = 0
    THEN [st EXCEPT !.docs = Append(st.docs, st.cur_doc), !.cur_doc = Document]
    ELSE IF Contains(SentIdMarker, row[1])
    THEN [st EXCEPT !.cur_doc.sent_id = Some(From(row[1], 12))]
    ELSE IF Contains(TextMarker, row[1])
    THEN [st EXCEPT !.cur_doc.text = Some(From(row[1], 9))]
    ELSE IF Len(row) > 1 /\ ~Contains(<<".">>, row[1]) /\ ~TreeAddRaises(row)
    THEN [st EXCEPT !.cur_doc.tree = TreeAdd(st.cur_doc.tree, row)]
    ELSE st

\* One iteration of the loop over the rows.
ParseRow(st, row) ==
    IF Len(row) = 0
    THEN [st EXCEPT !.docs = Append(st.docs, st.cur_doc), !.cur_doc = Document]
    ELSE IF Contains(SentIdMarker, row[1])
    THEN [st EXCEPT !.cur_doc.sent_id = Some(From(row[1], 12))]
    ELSE IF Contains(TextMarker, row[1])
    THEN [st EXCEPT !.cur_doc.text = Some(From(row[1], 9))]
    ELSE IF Len(row) > 1
    THEN IF Contains(<<".">>, row[1])
         THEN st
         ELSE IF TreeAddRaises(row)
              THEN [st EXCEPT !.raised = TRUE]
              ELSE [st EXCEPT !.cur_doc.tree = TreeAdd(st.cur_doc.tree, row)]
    ELSE st

\* The loop: it ends at the end of the file or at the first row that raises.
RECURSIVE ParseRows(_, _)
ParseRows(st, rows) ==
    IF rows = << >> \/ st.raised
    THEN st
    ELSE ParseRows(ParseRow(st, Head(rows)), Tail(rows))

\* A variant that drops an in-progress Document that holds no rows.
FlushUnlessEmpty(st) ==
    IF st.cur_doc.tree.raw = << >> THEN st.docs ELSE Append(st.docs, st.cur_doc)

\* After the loop: self.docs.append(cur_doc).
Flush(st) == Append(st.docs, st.cur_doc)

----------------------------------------------------------------------------
(* _get_vocabs. *)

\* A list of str sorted ascending, from the set S.
RECURSIVE SortStr(_)
SortStr(S) ==
    IF S = {} THEN << >>
    ELSE LET m == CHOOSE x \in S : \A y \in S \ {x} : StrLess(x, y)
         IN  <<m>> \o SortStr(S \ {m})

\* torchtext orders the counter by key, then (stably) by descending count.
RECURSIVE SortByFreq(_, _)
SortByFreq(S, flat) ==
    IF S = {} THEN << >>
    ELSE LET m == CHOOSE x \in S : \A y \in S \ {x} :
                      \/ Count(x, flat) > Count(y, flat)
                      \/ Count(x, flat) = Count(y, flat) /\ StrLess(x, y)
         IN  <<m>> \o SortByFreq(S \ {m}, flat)

\* A variant with special_first=False: the specials go last.
BuildVocabSpecialsLast(lists, specials) ==
    LET flat == Flatten(lists)
    IN  [built |-> TRUE,
         itos |-> SortByFreq(Range(flat) \ Range(specials), flat) \o specials,
         default_index |-> None]

\* torchtext build_vocab_from_iterator(lists, specials=..., special_first=True)
\* with min_freq = 1: the specials, then every other item once.
BuildVocabFromIterator(lists, specials) ==
    LET flat == Flatten(lists)
    IN  [built |-> TRUE,
         itos |-> specials \o SortByFreq(Range(flat) \ Range(specials), flat),
         default_index |-> None]

NoVocab == [built |-> FALSE, itos |-> << >>, default_index |-> None]

\* vocab[s] and vocab.lookup_indices: the index of s, or the default index.
Lookup(vocab, s) ==
    IF \E i \in 1..Len(vocab.itos) : vocab.itos[i] = s
    THEN (CHOOSE i \in 1..Len(vocab.itos) : vocab.itos[i] = s) - 1
    ELSE vocab.default_index[1]

SetDefaultIndex(vocab, i) == [vocab EXCEPT !.default_index = Some(i)]

\* [c for c in t]: each character is a str of length one.
Chars(t) == [i \in 1..Len(t) |-> <<t[i]>>]

\* dict.get(k, default)
DictGet(dict, k, default) ==
    IF \E i \in 1..Len(dict) : dict[i].k = k
    THEN dict[CHOOSE i \in 1..Len(dict) : dict[i].k = k].v
    ELSE default

DictKeys(dict) == [i \in 1..Len(dict) |-> dict[i].k]

\* {tag for d in docs for tagset in d.morph_tags for tag in tagset}
AllTags(ds) ==
    UNION {UNION {Range(ds[i].tree.morph_tags[j]) :
                    j \in 1..Len(ds[i].tree.morph_tags)} : i \in 1..Len(ds)}

AllTokenLists(ds) == [i \in 1..Len(ds) |-> ds[i].tree.tokens]

AllCharLists(ds) ==
    Flatten([i \in 1..Len(ds) |->
                [j \in 1..Len(ds[i].tree.tokens) |-> Chars(ds[i].tree.tokens[j])]])

GetVocabs(ds) ==
    LET tv0 == BuildVocabFromIterator(AllTokenLists(ds), <<unk_token, pad_token>>)
        tv  == SetDefaultIndex(tv0, Lookup(tv0, unk_token))
        cv0 == BuildVocabFromIterator(AllCharLists(ds), <<unk_token, pad_token>>)
        cv  == SetDefaultIndex(cv0, Lookup(tv, unk_token))
        sorted == SortStr(AllTags(ds))
    IN  [token_vocab |-> tv, char_vocab |-> cv,
         morph_tag_vocab |-> [i \in 1..Len(sorted) |-> [k |-> sorted[i], v |-> i - 1]]]

----------------------------------------------------------------------------
(* _move_to_pt. *)

HasKey(dict, k) == \E i \in 1..Len(dict) : dict[i].k = k

\* F.one_hot(tensor(id), num_classes)
OneHot(id, num_classes) == [c \in 1..num_classes |-> IF c - 1 = id THEN 1 ELSE 0]

\* torch.cat([F.one_hot(ids of tagset, len(vocab))[:, :-1] for tagset in ...]):
\* one one-hot row per tag of every tag set, its last column cut off, the
\* blocks stacked one under the other.
MorphTagsTensor(d, mv) ==
    Flatten([j \in 1..Len(d.tree.morph_tags) |->
               [t \in 1..Len(d.tree.morph_tags[j]) |->
                  SubSeq(OneHot(DictGet(mv, d.tree.morph_tags[j][t], "_"), Len(mv)),
                         1, Len(mv) - 1)]])

\* torch.tensor of a list that holds the default '_' raises, and so does
\* torch.cat of an empty list (a Document with no token).
TensorizeRaises(d, mv) ==
    \/ d.tree.morph_tags = << >>
    \/ \E j \in 1..Len(d.tree.morph_tags) :
          \E t \in 1..Len(d.tree.morph_tags[j]) : ~HasKey(mv, d.tree.morph_tags[j][t])

\* Document.set_tensors with the three tensors of the loop body.
Tensorize(d, tv, cv, mv) ==
    [d EXCEPT
       !.chars_tensor = Some([j \in 1..Len(d.tree.tokens) |->
                                [c \in 1..Len(d.tree.tokens[j]) |->
                                   Lookup(cv, Chars(d.tree.tokens[j])[c])]]),
       !.tokens_tensor = Some([j \in 1..Len(d.tree.tokens) |->
                                 Lookup(tv, d.tree.tokens[j])]),
       !.morph_tags_tensor = Some(MorphTagsTensor(d, mv))]

\* A variant that leaves a Document that already has tensors as it is.
MoveToPtOnlyNew(ds, tv, cv, mv) ==
    LET bad  == {i \in 1..Len(ds) : TensorizeRaises(ds[i], mv)}
        stop == IF bad = {} THEN Len(ds) + 1
                ELSE CHOOSE i \in bad : \A j \in bad : i <= j
    IN  [docs |-> [i \in 1..Len(ds) |->
                     IF i < stop /\ ds[i].tokens_tensor = None
                     THEN Tensorize(ds[i], tv, cv, mv) ELSE ds[i]],
         raised |-> bad # {}]

\* The loop over self.docs, in order; it stops at the first Document whose
\* tensors cannot be built, the Documents before it already updated.
MoveToPt(ds, tv, cv, mv) ==
    LET bad  == {i \in 1..Len(ds) : TensorizeRaises(ds[i], mv)}
        stop == IF bad = {} THEN Len(ds) + 1
                ELSE CHOOSE i \in bad : \A j \in bad : i <= j
    IN  [docs |-> [i \in 1..Len(ds) |->
                     IF i < stop THEN Tensorize(ds[i], tv, cv, mv) ELSE ds[i]],
         raised |-> bad # {}]

----------------------------------------------------------------------------
(* The corpus: construction, parse_tree_file, clear_docs. *)

\* What `last' records of a call: the operation, its input (the rows of the
\* file, or what the tokenizer returned), docs before it, how it ended (ok or
\* the exception raised) and the Document it was at.
Call(op, input, before, result, at) ==
    [op |-> op, input |-> input, before |-> before, result |-> result, at |-> at]

Init ==
    /\ docs = << >>
    /\ token_vocab = NoVocab
    /\ char_vocab = NoVocab
    /\ morph_tag_vocab = << >>
    /\ script_counter = << >>
    /\ script_examples = << >>
    /\ script_to_id = << >>
    /\ id_to_script = << >>
    /\ last = Call("init", << >>, << >>, "ok", 0)
    /\ pc = 0
    /\ consumed = 0

ParseTreeFile(conllu_data) ==
    /\ consumed + Len(conllu_data) + 1 <= MaxInput
    /\ consumed' = consumed + Len(conllu_data) + 1
    /\ LET st == ParseRows(ScanStart(docs), conllu_data)
       IN  IF st.raised
           THEN /\ docs' = st.docs
                /\ UNCHANGED <<token_vocab, char_vocab, morph_tag_vocab>>
                /\ last' = Call("parse", conllu_data, docs, "ValueError", 0)
           ELSE LET v == GetVocabs(Flush(st))
                    m == MoveToPt(Flush(st), v.token_vocab, v.char_vocab,
                                  v.morph_tag_vocab)
                IN  /\ docs' = m.docs
                    /\ token_vocab' = v.token_vocab
                    /\ char_vocab' = v.char_vocab
                    /\ morph_tag_vocab' = v.morph_tag_vocab
                    /\ last' = Call("parse", conllu_data, docs,
                                     IF m.raised THEN "RuntimeError" ELSE "ok", 0)
    /\ UNCHANGED <<script_counter, script_examples, script_to_id, id_to_script, pc>>

ClearDocs ==
    /\ consumed + 1 <= MaxInput
    /\ consumed' = consumed + 1
    /\ docs' = << >>
    /\ last' = Call("clear", << >>, docs, "ok", 0)
    /\ UNCHANGED <<token_vocab, char_vocab, morph_tag_vocab,
                   script_counter, script_examples, script_to_id, id_to_script, pc>>

Parse ==
    \E n \in 0..(MaxInput - consumed - 1) : \E conllu_data \in [1..n -> Rows] :
        ParseTreeFile(conllu_data)

Next == Parse \/ ClearDocs

Spec == Init /\ [][Next]_vars

----------------------------------------------------------------------------
(* Properties of parse_tree_file, _get_vocabs and _move_to_pt. *)

\* The rows of a file, classified as the format describes them.
IsComment(row) ==
    Len(row) > 0 /\ (Contains(SentIdMarker, row[1]) \/ Contains(TextMarker, row[1]))

IsTokenRow(row) ==
    Len(row) > 1 /\ ~IsComment(row) /\ \A i \in 1..Len(row[1]) : row[1][i] # "."

\* The empty lines among the first n rows of f.
NumBlank(f, n) == Cardinality({i \in 1..n : Len(f[i]) = 0})

\* The forms of the token rows of f that lie after k - 1 empty lines and
\* before the k-th, in file order.
FormsOfSegment(f, k) ==
    LET idx == SelectSeq([i \in 1..Len(f) |-> i],
                         LAMBDA i : IsTokenRow(f[i]) /\ NumBlank(f, i - 1) + 1 = k)
    IN  [j \in 1..Len(idx) |-> f[idx[j]][2]]

\* The token rows of f that do not have ten fields.
Malformed(f) == {i \in 1..Len(f) : IsTokenRow(f[i]) /\ Len(f[i]) # 10}

FirstMalformed(f) == CHOOSE i \in Malformed(f) : \A j \in Malformed(f) : i <= j

TokensIn(ds) == UNION {Range(ds[i].tree.tokens) : i \in 1..Len(ds)}

CharsIn(ds) == UNION {Range(Chars(t)) : t \in TokensIn(ds)}

TagsIn(ds) ==
    UNION {UNION {Range(tagset) : tagset \in Range(ds[i].tree.morph_tags)} :
             i \in 1..Len(ds)}

\* The scan of the last call reached the end of its file.
Scanned == last.op = "parse" /\ last.result # "ValueError"

\* C1: a call whose scan reaches the end of a file with b empty lines has
\* appended exactly b + 1 Documents, in file order, the k-th holding exactly
\* the token rows read while it was the current Document; the Document in
\* progress at the end of input is appended even if it holds no rows.
C1_ScanAppendsSegments ==
    Scanned =>
        LET f  == last.input
            n0 == Len(last.before)
            b  == NumBlank(f, Len(f))
        IN  /\ Len(docs) = n0 + b + 1
            /\ \A k \in 1..(b + 1) : docs[n0 + k].tree.tokens = FormsOfSegment(f, k)

C1_Witness ==
    /\ Scanned
    /\ Len(last.input) >= 2
    /\ Len(last.input[Len(last.input)]) = 0
    /\ docs[Len(docs)].tree.raw = << >>
    /\ \E i \in (Len(last.before) + 1)..Len(docs) : docs[i].tree.tokens # << >>

\* C2: after every parse_tree_file call, however it ends, the document list
\* before the call is an unchanged prefix of the list after it: the same
\* Documents in the same order with the same forms, lemmas and tag sets.
C2_AppendOnly ==
    last.op = "parse" =>
        /\ Len(docs) >= Len(last.before)
        /\ \A i \in 1..Len(last.before) :
              /\ docs[i].tree = last.before[i].tree
              /\ docs[i].sent_id = last.before[i].sent_id
              /\ docs[i].text = last.before[i].text

C2_Witness ==
    /\ last.op = "parse"
    /\ Len(last.before) >= 1
    /\ last.before[1].tree.tokens # << >>
    /\ Len(docs) > Len(last.before)
    /\ docs[Len(docs)].tree.tokens # << >>

\* C3: a file with a token row that does not have exactly 10 fields makes
\* the call fail at the first such row: only the Documents closed by the
\* empty lines before it are appended, they hold only rows read before it,
\* and neither that row nor any later one is in a Tree.
C3_MalformedRowAborts ==
    (last.op = "parse" /\ Malformed(last.input) # {}) =>
        LET f  == last.input
            n0 == Len(last.before)
            i  == FirstMalformed(f)
            b  == NumBlank(f, i - 1)
        IN  /\ last.result = "ValueError"
            /\ Len(docs) = n0 + b
            /\ \A k \in 1..b :
                  docs[n0 + k].tree.tokens = FormsOfSegment(SubSeq(f, 1, i - 1), k)

C3_Witness ==
    /\ last.op = "parse"
    /\ Malformed(last.input) # {}
    /\ last.result = "ValueError"
    /\ FirstMalformed(last.input) < Len(last.input)
    /\ IsTokenRow(last.input[Len(last.input)])
    /\ Len(docs) > Len(last.before)

\* C4: after a successful parse_tree_file every Document's tag matrix has
\* one row per token and one column per entry of morph_tag_vocab, with a 1
\* in row i, column j exactly when the tag with id j is in token i's tag set
\* ('_' standing for no tag).
C4_MultiHotMatrix ==
    (last.op = "parse" /\ last.result = "ok") =>
        \A n \in 1..Len(docs) :
            /\ docs[n].morph_tags_tensor # None
            /\ LET M == docs[n].morph_tags_tensor[1]
                   d == docs[n]
               IN  /\ Len(M) = DocLen(d)
                   /\ \A i \in 1..DocLen(d) :
                         /\ Len(M[i]) = Len(morph_tag_vocab)
                         /\ \A j \in 1..Len(morph_tag_vocab) :
                               (M[i][j] = 1) <=>
                                   (morph_tag_vocab[j].k \in
                                        Range(d.tree.morph_tags[i]) \ {<<"_">>})

\* Strings that are looked up: those of the files, the two specials and
\* others that no file holds.
Probes ==
    {unk_token, pad_token, << >>, <<"a">>, <<"b">>, <<"z">>, <<"a", "b">>,
     <<"b", "a">>, <<"a", "z">>}

\* Both vocabularies hold every token (character) of the corpus once, the
\* unknown symbol at index 0 and padding at index 1, and every probe that is
\* absent from the corpus and not in `kept' looks up to index 0.
VocabClosure(kept) ==
    /\ token_vocab.built /\ char_vocab.built
    /\ \A t \in TokensIn(docs) : Count(t, token_vocab.itos) = 1
    /\ \A c \in CharsIn(docs) : Count(c, char_vocab.itos) = 1
    /\ token_vocab.itos[1] = unk_token /\ token_vocab.itos[2] = pad_token
    /\ char_vocab.itos[1] = unk_token /\ char_vocab.itos[2] = pad_token
    /\ Lookup(token_vocab, unk_token) = 0 /\ Lookup(token_vocab, pad_token) = 1
    /\ Lookup(char_vocab, unk_token) = 0 /\ Lookup(char_vocab, pad_token) = 1
    /\ \A s \in Probes \ kept :
          /\ s \notin TokensIn(docs) => Lookup(token_vocab, s) = 0
          /\ s \notin CharsIn(docs) => Lookup(char_vocab, s) = 0

\* C5 as stated: after _get_vocabs every token and character of the corpus
\* has its entry, index 0 is the unknown symbol and index 1 padding, and any
\* string absent from the corpus looks up to index 0 in both vocabularies.
C5_AbsentLooksUpToUnknown == Scanned => VocabClosure({})

\* C5 as amended: the same, for any string absent from the corpus other
\* than the padding symbol itself, which looks up to index 1.
C5_AbsentNonSpecialLooksUpToUnknown == Scanned => VocabClosure({pad_token})

C5_Witness ==
    /\ Scanned
    /\ Cardinality(TokensIn(docs)) >= 2
    /\ Cardinality(CharsIn(docs)) >= 2
    /\ \E i \in 1..Len(docs) : Len(docs[i].tree.tokens) >= 2

\* C10: right after a successful parse_tree_file, whatever calls came
\* before, the three vocabularies hold exactly the tokens, characters and
\* tags of the Documents now in docs, and every Document, also one appended
\* by an earlier call, carries the indices of its tokens and characters in
\* those vocabularies.
C10_VocabsAndIndicesCurrent ==
    (last.op = "parse" /\ last.result = "ok") =>
        /\ Range(token_vocab.itos) = {unk_token, pad_token} \cup TokensIn(docs)
        /\ Range(char_vocab.itos) = {unk_token, pad_token} \cup CharsIn(docs)
        /\ Range(DictKeys(morph_tag_vocab)) = TagsIn(docs)
        /\ \A n \in 1..Len(docs) :
              LET t == docs[n].tree.tokens
              IN  /\ docs[n].tokens_tensor =
                        Some([j \in 1..Len(t) |-> Lookup(token_vocab, t[j])])
                  /\ docs[n].chars_tensor =
                        Some([j \in 1..Len(t) |->
                                [c \in 1..Len(t[j]) |-> Lookup(char_vocab, <<t[j][c]>>)]])

C10_Witness ==
    /\ last.op = "parse" /\ last.result = "ok"
    /\ Len(last.before) >= 1
    /\ last.before[1].tokens_tensor # None
    /\ docs[1].tokens_tensor # last.before[1].tokens_tensor

----------------------------------------------------------------------------
(* set_lemma_tags. *)

\* LemmaScriptGenerator(wf, lm).get_lemma_script(): a pure function of the
\* pair.  Here: how many characters to cut from the end of the form and what
\* to add, after the longest common prefix.
LemmaScript(wf, lm) ==
    LET common == {n \in 0..Min(Len(wf), Len(lm)) : SubSeq(wf, 1, n) = SubSeq(lm, 1, n)}
        p == CHOOSE n \in common : \A m \in common : m <= n
    IN  [cut |-> Len(wf) - p, add |-> From(lm, p)]

\* zip(d.tokens, d.lemmas), mapped to the scripts: doc_scripts.
DocScripts(d) ==
    [j \in 1..Min(Len(d.tree.tokens), Len(d.tree.lemmas)) |->
        LemmaScript(d.tree.tokens[j], d.tree.lemmas[j])]

\* docs_scripts
DocsScripts(ds) == [i \in 1..Len(ds) |-> DocScripts(ds[i])]

\* zip(d.tokens, d.lemmas) over all Documents, in the order of the pass.
DocPairs(d) ==
    [j \in 1..Min(Len(d.tree.tokens), Len(d.tree.lemmas)) |->
        <<d.tree.tokens[j], d.tree.lemmas[j]>>]

AllPairs(ds) == Flatten([i \in 1..Len(ds) |-> DocPairs(ds[i])])

\* counter[k] += 1: a new key goes last.
CounterAdd(counter, k) ==
    IF HasKey(counter, k)
    THEN [i \in 1..Len(counter) |->
            IF counter[i].k = k THEN [k |-> k, v |-> counter[i].v + 1] ELSE counter[i]]
    ELSE Append(counter, [k |-> k, v |-> 1])

\* script_counter after the first n pairs.
RECURSIVE CountScripts(_, _)
CountScripts(pairs, n) ==
    IF n = 0 THEN << >>
    ELSE CounterAdd(CountScripts(pairs, n - 1), LemmaScript(pairs[n][1], pairs[n][2]))

\* if len(script_examples[s]) < 3: script_examples[s].add(f"{wf}->{lm}")
ExamplesAdd(examples, k, pair) ==
    IF HasKey(examples, k)
    THEN [i \in 1..Len(examples) |->
            IF examples[i].k = k /\ Cardinality(examples[i].v) < 3
            THEN [k |-> k, v |-> examples[i].v \cup {pair}] ELSE examples[i]]
    ELSE Append(examples, [k |-> k, v |-> {pair}])

RECURSIVE CollectExamples(_, _)
CollectExamples(pairs, n) ==
    IF n = 0 THEN << >>
    ELSE ExamplesAdd(CollectExamples(pairs, n - 1),
                     LemmaScript(pairs[n][1], pairs[n][2]), pairs[n])

\* A variant that sorts ascending and reverses: equal counts come out in the
\* reverse of their order in the counter.
RECURSIVE SortedByCountReversed(_, _)
SortedByCountReversed(items, n) ==
    IF n = 0 THEN << >>
    ELSE LET done == SortedByCountReversed(items, n - 1)
             x    == items[n]
             keep == Cardinality({i \in 1..Len(done) : done[i].v > x.v})
         IN  SubSeq(done, 1, keep) \o <<x>> \o SubSeq(done, keep + 1, Len(done))

\* sorted(items, key=lambda x: x[1], reverse=True) of the first n items: by
\* descending count, and stable, so equal counts keep their order.
RECURSIVE SortedByCount(_, _)
SortedByCount(items, n) ==
    IF n = 0 THEN << >>
    ELSE LET done == SortedByCount(items, n - 1)
             x    == items[n]
             keep == Cardinality({i \in 1..Len(done) : done[i].v >= x.v})
         IN  SubSeq(done, 1, keep) \o <<x>> \o SubSeq(done, keep + 1, Len(done))

\* {k: i for i, (k, _) in enumerate(sorted(...))}
ScriptToId(counter) ==
    LET ranked == SortedByCount(counter, Len(counter))
    IN  [i \in 1..Len(ranked) |-> [k |-> ranked[i].k, v |-> i - 1]]

SetLemmaTags ==
    LET counter == CountScripts(AllPairs(docs), Len(AllPairs(docs)))
        ids     == ScriptToId(counter)
        scripts == DocsScripts(docs)
    IN  /\ script_counter' = counter
        /\ script_examples' = CollectExamples(AllPairs(docs), Len(AllPairs(docs)))
        /\ script_to_id' = ids
        /\ id_to_script' = DictKeys(ids)
        /\ docs' = [i \in 1..Len(docs) |->
                      [docs[i] EXCEPT !.lemma_tags_tensor =
                          Some([j \in 1..Len(scripts[i]) |->
                                  DictGet(ids, scripts[i][j], None)])]]
        /\ last' = Call("set_lemma_tags", << >>, docs, "ok", 0)
        /\ UNCHANGED <<token_vocab, char_vocab, morph_tag_vocab, consumed, pc>>

\* The (form, lemma) pairs of the corpora that are labelled.
FormLemmaPairs ==
    { << <<"a">>, <<"a">> >>, << <<"a", "b">>, <<"a">> >>, << <<"a">>, <<"a", "b">> >> }

\* The Document whose Tree holds the rows of these pairs.
RECURSIVE TreeOfPairs(_, _)
TreeOfPairs(pairs, n) ==
    IF n = 0 THEN Tree
    ELSE TreeAdd(TreeOfPairs(pairs, n - 1),
                 << <<"1">>, pairs[n][1], pairs[n][2], U, U, U, U, U, U, U >>)

DocumentOfPairs(pairs) == [Document EXCEPT !.tree = TreeOfPairs(pairs, Len(pairs))]

\* The lists of at most n pairs.
PairLists(n) == UNION {[1..k -> FormLemmaPairs] : k \in 0..n}

\* The corpora of at most n Documents and tokens in all.
RECURSIVE LemmaCorpora(_)
LemmaCorpora(n) ==
    {<< >>} \cup
    UNION {{<<DocumentOfPairs(p)>> \o r : r \in LemmaCorpora(n - 1 - Len(p))} :
             p \in PairLists(n - 1)}

\* A corpus constructed with a list of Documents, not yet labelled.
InitLemma ==
    /\ docs \in LemmaCorpora(MaxLemmaSize)
    /\ token_vocab = NoVocab
    /\ char_vocab = NoVocab
    /\ morph_tag_vocab = << >>
    /\ script_counter = << >>
    /\ script_examples = << >>
    /\ script_to_id = << >>
    /\ id_to_script = << >>
    /\ last = Call("init", << >>, << >>, "ok", 0)
    /\ pc = 0
    /\ consumed = 0

NextLemma == SetLemmaTags

SpecLemma == InitLemma /\ [][NextLemma]_vars

\* The scripts of the corpus in the order of the counting pass.
ScriptsInOrder(ds) ==
    LET pairs == AllPairs(ds)
    IN  [n \in 1..Len(pairs) |-> LemmaScript(pairs[n][1], pairs[n][2])]

FirstSeen(x, q) == CHOOSE i \in 1..Len(q) : q[i] = x /\ \A j \in 1..(i - 1) : q[j] # x

IdOf(x) == (CHOOSE i \in 1..Len(script_to_id) : script_to_id[i].k = x) - 1

\* C6: after set_lemma_tags, script_to_id maps the K distinct scripts of the
\* corpus one-to-one onto 0..K-1, id_to_script is its inverse list, a script
\* with a greater count has a smaller id, and of two scripts with equal
\* counts the one met first in the counting pass has the smaller id.
C6_RankedBijection ==
    last.op = "set_lemma_tags" =>
        LET q == ScriptsInOrder(docs)
            K == Cardinality(Range(q))
        IN  /\ Len(script_to_id) = K
            /\ {script_to_id[i].k : i \in 1..K} = Range(q)
            /\ {script_to_id[i].v : i \in 1..K} = 0..(K - 1)
            /\ Len(id_to_script) = K
            /\ \A x \in Range(q) : id_to_script[DictGet(script_to_id, x, None) + 1] = x
            /\ \A x \in Range(q), y \in Range(q) :
                  /\ Count(x, q) > Count(y, q) =>
                        DictGet(script_to_id, x, None) < DictGet(script_to_id, y, None)
                  /\ (Count(x, q) = Count(y, q) /\ FirstSeen(x, q) < FirstSeen(y, q)) =>
                        DictGet(script_to_id, x, None) < DictGet(script_to_id, y, None)

C6_Witness ==
    /\ last.op = "set_lemma_tags"
    /\ LET q == ScriptsInOrder(docs)
       IN  \E x \in Range(q), y \in Range(q), z \in Range(q) :
              /\ Count(x, q) = Count(z, q) /\ FirstSeen(x, q) < FirstSeen(z, q)
              /\ Count(y, q) > Count(x, q) /\ FirstSeen(x, q) < FirstSeen(y, q)
              /\ IdOf(y) = 0 /\ IdOf(x) = 1 /\ IdOf(z) = 2

----------------------------------------------------------------------------
(* add_context_embs. *)

\* The spans of the tokens from the j-th on, searched from `end': re.search
\* finds the leftmost occurrence of the token in text[end:]; without one,
\* match is None and match.span() raises.
RECURSIVE FindFrom(_, _, _, _, _)
FindFrom(text, tokens, j, end, spans) ==
    IF j > Len(tokens) THEN [spans |-> spans, raised |-> FALSE]
    ELSE LET t     == tokens[j]
             rest  == From(text, end)
             found == {p \in 0..(Len(rest) - Len(t)) : SubSeq(rest, p + 1, p + Len(t)) = t}
         IN  IF found = {} THEN [spans |-> spans, raised |-> TRUE]
             ELSE LET m == CHOOSE p \in found : \A q \in found : p <= q
                  IN  FindFrom(text, tokens, j + 1, end + m + Len(t),
                               Append(spans, <<m + end, m + Len(t) + end>>))

\* A variant that passes over a token it cannot find.
RECURSIVE FindFromSkipMissing(_, _, _, _, _)
FindFromSkipMissing(text, tokens, j, end, spans) ==
    IF j > Len(tokens) THEN [spans |-> spans, raised |-> FALSE]
    ELSE LET t     == tokens[j]
             rest  == From(text, end)
             found == {p \in 0..(Len(rest) - Len(t)) : SubSeq(rest, p + 1, p + Len(t)) = t}
         IN  IF found = {} THEN FindFromSkipMissing(text, tokens, j + 1, end, spans)
             ELSE LET m == CHOOSE p \in found : \A q \in found : p <= q
                  IN  FindFromSkipMissing(text, tokens, j + 1, end + m + Len(t),
                                          Append(spans, <<m + end, m + Len(t) + end>>))

FindSpansSkipMissing(text, tokens) == FindFromSkipMissing(text, tokens, 1, 0, << >>)

\* end, spans = 0, []; for t in d.tokens: ...
FindSpans(text, tokens) == FindFrom(text, tokens, 1, 0, << >>)

\* correspondence[index].append(i) on a defaultdict(list)
DictAppend(dict, k, x) ==
    IF HasKey(dict, k)
    THEN [n \in 1..Len(dict) |->
            IF dict[n].k = k THEN [k |-> k, v |-> Append(dict[n].v, x)] ELSE dict[n]]
    ELSE Append(dict, [k |-> k, v |-> <<x>>])

\* The walk over offset_mapping[1:-1] from its i-th entry (counted from 0):
\* the entry goes to the current bucket, then spans[index] is read, which
\* raises IndexError once index has passed the last token.
RECURSIVE Walk(_, _, _, _, _)
Walk(inner, spans, i, index, correspondence) ==
    IF i = Len(inner) THEN [correspondence |-> correspondence, raised |-> FALSE]
    ELSE LET c == DictAppend(correspondence, index, i)
         IN  IF index >= Len(spans)
             THEN [correspondence |-> c, raised |-> TRUE]
             ELSE Walk(inner, spans, i + 1,
                       IF inner[i + 1][2] = spans[index + 1][2] THEN index + 1 ELSE index,
                       c)

\* offset_mapping[1:-1]
Inner(offset_mapping) == SubSeq(offset_mapping, 2, Len(offset_mapping) - 1)

\* The encoder's output for the text, the last four layers averaged: one
\* vector for every sub-word token, the structural markers included.  The
\* vector of the token at position p (counted from 0) is [subword |-> p].
HiddenStates(offset_mapping) == [p \in 1..Len(offset_mapping) |-> [subword |-> p - 1]]

\* torch.mean(contextual_embeddings[idx], dim=0): the mean of the vectors at
\* the positions idx (counted from 0), given as the list of those vectors.
MeanPool(contextual_embeddings, idx) ==
    [pooled |-> [n \in 1..Len(idx) |-> contextual_embeddings[idx[n] + 1]]]

\* The body of the loop for one Document, with what the tokenizer returned
\* for its text.  A Document without text makes the tokenizer raise; a walk
\* that fills no bucket makes torch.stack raise on the empty list.
ContextEmbs(d, offset_mapping) ==
    IF d.text = None
    THEN [doc |-> d, result |-> "ValueError"]
    ELSE LET found == FindSpans(d.text[1], d.tree.tokens)
         IN  IF found.raised
             THEN [doc |-> d, result |-> "AttributeError"]
             ELSE LET w == Walk(Inner(offset_mapping), found.spans, 0, 0, << >>)
                  IN  IF w.raised
                      THEN [doc |-> d, result |-> "IndexError"]
                      ELSE IF w.correspondence = << >>
                      THEN [doc |-> d, result |-> "RuntimeError"]
                      ELSE [doc |-> [d EXCEPT
                                !.context_emb =
                                    Some([k \in 1..Len(w.correspondence) |->
                                            MeanPool(HiddenStates(offset_mapping),
                                                     w.correspondence[k].v)]),
                                !.model_name = Some("Model")],
                            result |-> "ok"]

\* What a tokenizer may return for a text of length n: a leading and a
\* trailing structural marker with the span (0, 0) and between them sub-word
\* tokens with non-empty, ordered, non-overlapping spans.
RECURSIVE SubwordSpans(_, _)
SubwordSpans(from, n) ==
    {<< >>} \cup
    UNION {UNION {{<< <<b, e>> >> \o r : r \in SubwordSpans(e, n)} : e \in (b + 1)..n} :
             b \in from..(n - 1)}

OffsetMappings(text) ==
    {<< <<0, 0>> >> \o sp \o << <<0, 0>> >> :
        sp \in SubwordSpans(0, IF text = None THEN 0 ELSE Len(text[1]))}

\* One turn of `for d in self.docs': the first of a call when pc = 0.  The
\* call ends after the last Document or at the first one that raises.
ContextDoc(offset_mapping) ==
    LET i == IF pc = 0 THEN 1 ELSE pc
    IN  /\ i <= Len(docs)
        /\ LET r == ContextEmbs(docs[i], offset_mapping)
           IN  /\ docs' = [docs EXCEPT ![i] = r.doc]
               /\ last' = Call("add_context_embs", offset_mapping, docs, r.result, i)
               /\ pc' = IF r.result = "ok" /\ i < Len(docs) THEN i + 1 ELSE 0
        /\ UNCHANGED <<token_vocab, char_vocab, morph_tag_vocab, script_counter,
                       script_examples, script_to_id, id_to_script, consumed>>

AddContextEmbs ==
    \E offset_mapping \in OffsetMappings(
            IF Len(docs) = 0 THEN None ELSE docs[IF pc = 0 THEN 1 ELSE pc].text) :
        ContextDoc(offset_mapping)

\* The corpora that are aligned.
Alphabet == {"a", "b"}

Strs(n) == UNION {[1..k -> Alphabet] : k \in 0..n}

\* The lists of non-empty tokens with at most n characters in all.
RECURSIVE TokenLists(_)
TokenLists(n) ==
    {<< >>} \cup
    UNION {{<<t>> \o r : r \in TokenLists(n - Len(t))} : t \in Strs(n) \ {<< >>}}

DocumentOfText(text, tokens) ==
    [DocumentOfPairs([j \in 1..Len(tokens) |-> <<tokens[j], tokens[j]>>])
        EXCEPT !.text = text]

DocSize(d) ==
    1 + (IF d.text = None THEN 0 ELSE Len(d.text[1])) + Len(Flatten(d.tree.tokens))

ContextDocs(n) ==
    {d \in {DocumentOfText(text, tokens) :
               text \in {None} \cup {Some(x) : x \in Strs(n - 1)},
               tokens \in TokenLists(n - 1)} : DocSize(d) <= n}

RECURSIVE ContextCorpora(_)
ContextCorpora(n) ==
    {<< >>} \cup
    UNION {{<<d>> \o r : r \in ContextCorpora(n - DocSize(d))} : d \in ContextDocs(n)}

InitContext ==
    /\ docs \in ContextCorpora(MaxContextSize)
    /\ token_vocab = NoVocab
    /\ char_vocab = NoVocab
    /\ morph_tag_vocab = << >>
    /\ script_counter = << >>
    /\ script_examples = << >>
    /\ script_to_id = << >>
    /\ id_to_script = << >>
    /\ last = Call("init", << >>, << >>, "ok", 0)
    /\ pc = 0
    /\ consumed = 0

NextContext == AddContextEmbs

SpecContext == InitContext /\ [][NextContext]_vars

\* The tokens occur in the text one after the other, each as a literal
\* substring that starts at or after the end of the one before.
Embeddable(text, tokens) ==
    \E at \in [1..Len(tokens) -> 0..Len(text)] :
        \A j \in 1..Len(tokens) :
            /\ at[j] + Len(tokens[j]) <= Len(text)
            /\ SubSeq(text, at[j] + 1, at[j] + Len(tokens[j])) = tokens[j]
            /\ j > 1 => at[j] >= at[j - 1] + Len(tokens[j - 1])

Unalignable(d) == d.text # None /\ ~Embeddable(d.text[1], d.tree.tokens)

\* C7: a Document with a token that cannot be found literally in its text
\* at or after the end of the previous token's match never gets a
\* contextual-embedding matrix, and the turn of add_context_embs that comes
\* to it raises (match is None) and ends the call with the corpus unchanged.
C7_UnalignableRaises ==
    /\ \A i \in 1..Len(docs) : Unalignable(docs[i]) => docs[i].context_emb = None
    /\ (last.op = "add_context_embs" /\ Unalignable(last.before[last.at])) =>
          /\ last.result = "AttributeError"
          /\ docs = last.before
          /\ pc = 0

C7_Witness ==
    /\ last.op = "add_context_embs"
    /\ last.at = 2
    /\ Unalignable(docs[2])
    /\ last.result = "AttributeError"
    /\ docs[1].context_emb # None
    /\ docs[2].context_emb = None

\* C8: every Document on which add_context_embs completes without error has
\* a contextual-embedding matrix with exactly one row per token, whatever
\* sub-word spans the tokenizer returned.
C8_OneRowPerToken ==
    (last.op = "add_context_embs" /\ last.result = "ok") =>
        /\ docs[last.at].context_emb # None
        /\ Len(docs[last.at].context_emb[1]) = DocLen(docs[last.at])

\* C9: in a Document on which add_context_embs completes, the vectors
\* pooled for token k are exactly those of the sub-word tokens whose spans
\* lie inside token k's span, and the vector of the leading or trailing
\* structural marker is in no pool.
C9_MarkersNeverPooled ==
    (last.op = "add_context_embs" /\ last.result = "ok") =>
        LET d     == docs[last.at]
            om    == last.input
            rows  == d.context_emb[1]
            spans == FindSpans(d.text[1], d.tree.tokens).spans
        IN  \A k \in 1..Len(rows) :
                /\ \A n \in 1..Len(rows[k].pooled) :
                      rows[k].pooled[n].subword \notin {0, Len(om) - 1}
                /\ k <= Len(spans)
                /\ {rows[k].pooled[n].subword : n \in 1..Len(rows[k].pooled)} =
                      {q \in 1..(Len(om) - 2) :
                          spans[k][1] <= om[q + 1][1] /\ om[q + 1][2] <= spans[k][2]}

====
